---------------------------- MODULE Spec2Model ----------------------------
(***************************************************************************)
(* A model of the voice assistant of src/test.py: main, the constructor of *)
(* ConversationalAI, the dialogue loop ConversationalAI.run and the        *)
(* handlers it owns (SpeechHandler, HuggingFaceHandler, GmailHandler,      *)
(* CalendarHandler, WebBrowserHandler).                                    *)
(*                                                                         *)
(* Python strings are TLA+ strings, read as sequences of characters, so    *)
(* that lower(), strip(), capitalize(), the `in` substring test and        *)
(* datetime.strptime are computed character by character.  The external    *)
(* collaborators (speech recognition, the text-generation pipeline, the    *)
(* Gmail service) are nondeterministic choices over their outcomes.        *)
(***************************************************************************)
EXTENDS Integers, Sequences, FiniteSets, TLC

VARIABLES
    pc,                     \* position of the single thread of control
    command,                \* run: the value the last listen() returned
    conversation_context,   \* HuggingFaceHandler.conversation_context
    trace,                  \* calls made since (and including) the last listen() of run
    draft,                  \* handle_schedule_event: <<title, start_time, end_time>> captured so far
    scheduled,              \* events CalendarHandler.add_event reported as scheduled
    config_file,            \* what is on disk at "config.json"
    init_error              \* main: the handler whose constructor raised, "" when none did

vars == <<pc, command, conversation_context, trace, draft, scheduled,
          config_file, init_error>>

----------------------------------------------------------------------------
(* Bounds of the model *)

\* the main loop stops listening once the log holds MaxLog entries
MaxLog == 7

----------------------------------------------------------------------------
(* Python string operations *)

UpperAlpha == "ABCDEFGHIJKLMNOPQRSTUVWXYZ"
LowerAlpha == "abcdefghijklmnopqrstuvwxyz"
Digits == "0123456789"

\* the i-th character of s, as a string of length 1
Char(s, i) == SubSeq(s, i, i)

\* position of character c in the string alphabet, 0 when absent
IndexIn(alphabet, c) ==
    IF \E i \in 1..Len(alphabet) : Char(alphabet, i) = c
    THEN CHOOSE i \in 1..Len(alphabet) : Char(alphabet, i) = c
    ELSE 0

LowerChar(c) ==
    IF IndexIn(UpperAlpha, c) = 0 THEN c ELSE Char(LowerAlpha, IndexIn(UpperAlpha, c))

UpperChar(c) ==
    IF IndexIn(LowerAlpha, c) = 0 THEN c ELSE Char(UpperAlpha, IndexIn(LowerAlpha, c))

\* str.lower()
RECURSIVE Lower(_)
Lower(s) ==
    IF s = "" THEN "" ELSE LowerChar(Char(s, 1)) \o Lower(SubSeq(s, 2, Len(s)))

\* str.capitalize(): first character upper-cased, the rest lower-cased
Capitalize(s) ==
    IF s = "" THEN "" ELSE UpperChar(Char(s, 1)) \o Lower(SubSeq(s, 2, Len(s)))

IsSpace(c) == c \in {" ", "\n", "\t"}

\* str.strip()
RECURSIVE LStrip(_)
LStrip(s) ==
    IF s # "" /\ IsSpace(Char(s, 1)) THEN LStrip(SubSeq(s, 2, Len(s))) ELSE s

RECURSIVE RStrip(_)
RStrip(s) ==
    IF s # "" /\ IsSpace(Char(s, Len(s))) THEN RStrip(SubSeq(s, 1, Len(s) - 1)) ELSE s

Strip(s) == RStrip(LStrip(s))

\* the Python test `k in s` on strings
Contains(s, k) ==
    \E i \in 1..(Len(s) - Len(k) + 1) : SubSeq(s, i, i + Len(k) - 1) = k

\* "\n".join(entries)
RECURSIVE Join(_)
Join(entries) ==
    IF entries = <<>> THEN ""
    ELSE IF Len(entries) = 1 THEN entries[1]
    ELSE entries[1] \o "\n" \o Join(Tail(entries))

\* the slice forgotten: the whole list
LastN_Everything(xs, n) == xs

\* the Python slice xs[-n:]
LastN(xs, n) ==
    IF Len(xs) <= n THEN xs ELSE SubSeq(xs, Len(xs) - n + 1, Len(xs))

----------------------------------------------------------------------------
(* Calls recorded in the trace: the operation, its arguments, what it      *)
(* returned (a sequence of strings) and whether it raised instead.         *)

Call(op, args, ret) == [op |-> op, args |-> args, ret |-> ret, raised |-> FALSE]
Raised(op, args) == [op |-> op, args |-> args, ret |-> <<>>, raised |-> TRUE]

Ops(t) == [i \in 1..Len(t) |-> t[i].op]
CountOp(t, op) == Cardinality({i \in 1..Len(t) : t[i].op = op})

----------------------------------------------------------------------------
(* SpeechHandler *)

\* what recognize_google hands back, before lower()
RecognizedTexts ==
    { "Exit", "goodbye", "summarize my last email",
      "Summarize my last email then exit",
      "schedule an event", "open YouTube", "hello there" }

\* what is recognized at the prompts of the scheduling conversation
RecognizedCaptures ==
    { "Standup", "2024-01-01T09:00:00", "2024-01-01T09:30:00", "not-a-date",
      "2024-02-30T10:00:00", "2024-1-1T9:5:0" }

\* outcomes of recognizer.listen + recognize_google over the texts given:
\* a text (possibly empty), or one of the two exceptions listen catches
RecognitionOutcomes(texts) ==
    [kind : {"text"}, text : texts \cup {""}]
        \cup [kind : {"UnknownValueError", "RequestError"}, text : {""}]

\* SpeechHandler.listen: the recognized text lower-cased, "" on either caught error
Listen(outcome) ==
    IF outcome.kind = "text" THEN Lower(outcome.text) ELSE ""

\* the values listen() can return in the main loop and at the prompts
ListenReturns == { Listen(o) : o \in RecognitionOutcomes(RecognizedTexts) }
CaptureReturns == { Listen(o) : o \in RecognitionOutcomes(RecognizedCaptures) }

EvListen(ret) == Call("listen", <<>>, <<ret>>)
EvSpeak(text) == Call("speak", <<text>>, <<>>)

----------------------------------------------------------------------------
(* HuggingFaceHandler *)

\* the slice size of conversation_context[-5:]
Window == 5

Apology == "I apologize, but I encountered an error processing your request."

GeneratedTexts == { "  Sure. ", "Okay" }

\* outcomes of self.generator(prompt, ...): a well-formed response, an
\* exception, or a response without response[0]["generated_text"]
BackendOutcomes ==
    [kind : {"ok"}, text : GeneratedTexts]
        \cup [kind : {"raise", "malformed"}, text : {""}]

Prompt(context) ==
    "The following is a conversation between a helpful assistant and a user:\n"
        \o context \o "\nAssistant:"

\* the reply returned without being appended to the log
GenerateResponse_ReplyNotLogged(log, user_input, backend) ==
    LET withUser == Append(log, "User: " \o user_input)
        prompt   == Prompt(Join(LastN(withUser, Window)))
        bot      == Strip(backend.text)
    IN  IF backend.kind = "ok"
        THEN [ log    |-> withUser,
               ret    |-> bot,
               calls  |-> << Call("generator", <<prompt>>, <<backend.text>>),
                             Call("generate_response", <<user_input>>, <<bot>>) >>,
               rendered |-> LastN(withUser, Window) ]
        ELSE [ log    |-> withUser,
               ret    |-> Apology,
               calls  |-> << IF backend.kind = "raise"
                             THEN Raised("generator", <<prompt>>)
                             ELSE Call("generator", <<prompt>>, <<>>),
                             Call("generate_response", <<user_input>>, <<Apology>>) >>,
               rendered |-> LastN(withUser, Window) ]

\* the context rendered before the user entry is appended
GenerateResponse_RenderFirst(log, user_input, backend) ==
    LET withUser == Append(log, "User: " \o user_input)
        prompt   == Prompt(Join(LastN(log, Window)))
        bot      == Strip(backend.text)
    IN  IF backend.kind = "ok"
        THEN [ log    |-> Append(withUser, "Assistant: " \o bot),
               ret    |-> bot,
               calls  |-> << Call("generator", <<prompt>>, <<backend.text>>),
                             Call("generate_response", <<user_input>>, <<bot>>) >>,
               rendered |-> LastN(log, Window) ]
        ELSE [ log    |-> withUser,
               ret    |-> Apology,
               calls  |-> << IF backend.kind = "raise"
                             THEN Raised("generator", <<prompt>>)
                             ELSE Call("generator", <<prompt>>, <<>>),
                             Call("generate_response", <<user_input>>, <<Apology>>) >>,
               rendered |-> LastN(log, Window) ]

\* HuggingFaceHandler.generate_response: the new log, the returned string
\* and the calls made.  The user entry is appended before the backend is
\* called; any exception after that is caught and answered by the apology.
GenerateResponse(log, user_input, backend) ==
    LET withUser == Append(log, "User: " \o user_input)
        rendered == LastN(withUser, Window)
        prompt   == Prompt(Join(rendered))
        bot      == Strip(backend.text)
    IN  IF backend.kind = "ok"
        THEN [ log    |-> Append(withUser, "Assistant: " \o bot),
               ret    |-> bot,
               calls  |-> << Call("generator", <<prompt>>, <<backend.text>>),
                             Call("generate_response", <<user_input>>, <<bot>>) >>,
               rendered |-> rendered ]
        ELSE [ log    |-> withUser,
               ret    |-> Apology,
               calls  |-> << IF backend.kind = "raise"
                             THEN Raised("generator", <<prompt>>)
                             ELSE Call("generator", <<prompt>>, <<>>),
                             Call("generate_response", <<user_input>>, <<Apology>>) >>,
               rendered |-> rendered ]

SummaryPrompt(email_content, sender) ==
    "Summarize the following email from " \o sender \o " concisely: " \o email_content

\* HuggingFaceHandler.summarize_email: no try block, so a backend exception
\* or a malformed response leaves the method as an exception
SummarizeEmail(email_content, sender, backend) ==
    LET prompt == SummaryPrompt(email_content, sender)
    IN  IF backend.kind = "ok"
        THEN [ raised |-> FALSE,
               ret    |-> Strip(backend.text),
               calls  |-> << Call("generator", <<prompt>>, <<backend.text>>),
                             Call("summarize_email", <<email_content, sender>>,
                                  <<Strip(backend.text)>>) >> ]
        ELSE [ raised |-> TRUE,
               ret    |-> "",
               calls  |-> << IF backend.kind = "raise"
                             THEN Raised("generator", <<prompt>>)
                             ELSE Call("generator", <<prompt>>, <<>>),
                             Raised("summarize_email", <<email_content, sender>>) >> ]

----------------------------------------------------------------------------
(* GmailHandler *)

\* Optional values: <<>> is None, <<v>> is the value v
None == <<>>
Some(v) == <<v>>

\* str() of an optional string, as an f-string renders it
Str(opt) == IF opt = None THEN "None" ELSE opt[1]

Senders == { "alice@example.com" }
Snippets == { "", "Lunch at noon?", "Error report attached" }

\* outcomes of the two Gmail requests of fetch_last_email: the list request
\* fails, the mailbox is empty, the get request fails, or a message comes
\* back with or without a From header and with its snippet
MailOutcomes ==
    [kind : {"list_error", "empty", "get_error"}, from : {None}, snippet : {""}]
        \cup [kind : {"message"}, from : {None} \cup {Some(s) : s \in Senders},
              snippet : Snippets]

\* GmailHandler.fetch_last_email: the pair (sender, text) it returns
FetchLastEmail(mail) ==
    CASE mail.kind = "empty" ->
            [sender |-> None, text |-> "No emails found."]
      [] mail.kind \in {"list_error", "get_error"} ->
            [sender |-> None, text |-> "Error fetching the last email."]
      [] OTHER ->
            [sender |-> IF mail.from = None THEN Some("Unknown sender") ELSE mail.from,
             text   |-> mail.snippet]

\* repr() of an optional string: None, or the string in quotes
Repr(opt) == IF opt = None THEN "None" ELSE "'" \o opt[1] \o "'"

EvFetch(r) == Call("fetch_last_email", <<>>, <<Repr(r.sender), r.text>>)

----------------------------------------------------------------------------
(* CalendarHandler *)

IsDigits(s) == s # "" /\ \A i \in 1..Len(s) : IndexIn(Digits, Char(s, i)) # 0

RECURSIVE ToInt(_)
ToInt(s) ==
    IF s = "" THEN 0
    ELSE 10 * ToInt(SubSeq(s, 1, Len(s) - 1)) + (IndexIn(Digits, Char(s, Len(s))) - 1)

IsLeap(y) == (y % 4 = 0 /\ y % 100 # 0) \/ y % 400 = 0

DaysInMonth(y, m) ==
    IF m = 2 THEN (IF IsLeap(y) THEN 29 ELSE 28)
    ELSE IF m \in {4, 6, 9, 11} THEN 30 ELSE 31

\* a numeric field of the format: digits with a value in lo..hi
Field(f, lo, hi) == IsDigits(f) /\ ToInt(f) \in lo..hi

\* %d also accepts a blank followed by one digit 1-9
DayField(f) ==
    \/ Field(f, 1, 31)
    \/ Len(f) = 2 /\ Char(f, 1) = " " /\ Field(Char(f, 2), 1, 9)

\* datetime.strptime(s, "%Y-%m-%dT%H:%M:%S") does not raise ValueError:
\* four digits of year, then month, day, hour, minute and second of one or
\* two digits each, the literal separators matched ignoring case, nothing
\* left over, and the values a date and time datetime accepts
Strptime(s) ==
    \E lm, ld, lH, lM, lS \in {1, 2} :
        LET pm == 6
            pd == pm + lm + 1
            pH == pd + ld + 1
            pM == pH + lH + 1
            pS == pM + lM + 1
            fY == SubSeq(s, 1, 4)
            fm == SubSeq(s, pm, pm + lm - 1)
            fd == SubSeq(s, pd, pd + ld - 1)
            fH == SubSeq(s, pH, pH + lH - 1)
            fM == SubSeq(s, pM, pM + lM - 1)
            fS == SubSeq(s, pS, pS + lS - 1)
        IN  /\ Len(s) = pS + lS - 1
            /\ Field(fY, 1, 9999)
            /\ Char(s, 5) = "-"
            /\ Field(fm, 1, 12)
            /\ Char(s, pd - 1) = "-"
            /\ DayField(fd)
            /\ LowerChar(Char(s, pH - 1)) = "t"
            /\ Field(fH, 0, 23)
            /\ Char(s, pM - 1) = ":"
            /\ Field(fM, 0, 59)
            /\ Char(s, pS - 1) = ":"
            /\ Field(fS, 0, 59)
            /\ ToInt(LStrip(fd)) <= DaysInMonth(ToInt(fY), ToInt(fm))

\* the validation left out
AddEvent_Always(title, start_time, end_time) == TRUE

\* the end time left unchecked
AddEvent_StartOnly(title, start_time, end_time) == Strptime(start_time)

\* CalendarHandler.add_event: True when both timestamps parse
AddEvent(title, start_time, end_time) ==
    Strptime(start_time) /\ Strptime(end_time)

PyBool(b) == IF b THEN "True" ELSE "False"

EvAddEvent(title, start_time, end_time) ==
    Call("add_event", <<title, start_time, end_time>>,
         <<PyBool(AddEvent(title, start_time, end_time))>>)

----------------------------------------------------------------------------
(* WebBrowserHandler *)

\* the websites dict, in insertion order
websites ==
    << <<"youtube", "https://www.youtube.com">>,
       <<"google", "https://www.google.com">>,
       <<"facebook", "https://www.facebook.com">>,
       <<"twitter", "https://www.twitter.com">>,
       <<"instagram", "https://www.instagram.com">>,
       <<"linkedin", "https://www.linkedin.com">>,
       <<"amazon", "https://www.amazon.com">>,
       <<"reddit", "https://www.reddit.com">>,
       <<"github", "https://www.github.com">>,
       <<"stackoverflow", "https://stackoverflow.com">> >>

NotSure == "I'm not sure which website to open."

\* the for loop of open_website from entry i on: the calls made and the
\* string returned
RECURSIVE ScanWebsites(_, _)
ScanWebsites(cmd, i) ==
    IF i > Len(websites)
    THEN [calls |-> <<>>, ret |-> NotSure]
    ELSE IF Contains(cmd, websites[i][1])
         THEN [calls |-> << Call("webbrowser.open", <<websites[i][2]>>, <<>>) >>,
               ret   |-> "Opening " \o Capitalize(websites[i][1]) \o "."]
         ELSE ScanWebsites(cmd, i + 1)

\* the loop without its return: the last matching entry wins
RECURSIVE ScanWebsitesLast(_, _)
ScanWebsitesLast(cmd, i) ==
    IF i < 1
    THEN [calls |-> <<>>, ret |-> NotSure]
    ELSE IF Contains(cmd, websites[i][1])
         THEN [calls |-> << Call("webbrowser.open", <<websites[i][2]>>, <<>>) >>,
               ret   |-> "Opening " \o Capitalize(websites[i][1]) \o "."]
         ELSE ScanWebsitesLast(cmd, i - 1)

OpenWebsite_LastMatch(cmd) == ScanWebsitesLast(cmd, Len(websites))

\* WebBrowserHandler.open_website
OpenWebsite(cmd) == ScanWebsites(cmd, 1)

----------------------------------------------------------------------------
(* ConversationalAI.run and main *)

Greeting == "Hello! How can I assist you today?"

\* the test for an empty command left out
IsEmpty_Never(cmd) == FALSE

\* `if not command`
IsEmpty(cmd) == cmd = ""

\* `if "exit" in command or "bye" in command`
IsFarewell(cmd) == Contains(cmd, "exit") \/ Contains(cmd, "bye")

\* `if "summarize my last email" in command`
IsSummarize(cmd) == Contains(cmd, "summarize my last email")

\* the summarize test placed before the exit/bye test
Branch_SummarizeFirst(cmd) ==
    IF IsEmpty(cmd) THEN "empty"
    ELSE IF IsSummarize(cmd) THEN "summarize"
    ELSE IF IsFarewell(cmd) THEN "farewell"
    ELSE "freeform"

\* the branch of the loop body a command takes, in the order of its tests
Branch(cmd) ==
    IF IsEmpty(cmd) THEN "empty"
    ELSE IF IsFarewell(cmd) THEN "farewell"
    ELSE IF IsSummarize(cmd) THEN "summarize"
    ELSE "freeform"

\* `if last_email and "Error" not in last_email`
ShouldSummarize(sender, last_email) ==
    last_email # "" /\ ~Contains(last_email, "Error")

\* what can fail in ConversationalAI.__init__
ConstructOutcomes ==
    { "ok", "speech_init_error", "model_load_error", "gmail_auth_error" }

\* the states of the file "config.json"
ConfigFiles == { "absent", "malformed", "no_model_key", "valid" }

\* Config.load_config: raises for an absent file and for malformed JSON,
\* returns whatever JSON document the file holds otherwise (no key is
\* looked up).  Nothing in main or ConversationalAI.__init__ calls it.
LoadConfig(file) ==
    CASE file = "absent" ->
            [raised |-> TRUE, message |-> "Configuration file 'config.json' not found."]
      [] file = "malformed" ->
            [raised |-> TRUE, message |-> "Invalid JSON in configuration file."]
      [] OTHER ->
            [raised |-> FALSE, message |-> ""]

\* a failed constructor taken for a successful one
AfterConstruct_IgnoreFailure(outcome) == "run"

\* main: an exception in ConversationalAI() skips ai_agent.run()
AfterConstruct(outcome) == IF outcome = "ok" THEN "run" ELSE "aborted"

\* the program started: nothing constructed yet
Started ==
    /\ pc = "main"
    /\ command = ""
    /\ conversation_context = <<>>
    /\ trace = <<>>
    /\ draft = <<>>
    /\ scheduled = <<>>
    /\ init_error = ""

\* main started with a well-formed configuration file on disk
Init == Started /\ config_file = "valid"

\* main: ai_agent = ConversationalAI(); an exception of a handler's
\* constructor is caught by main, which prints it and returns
Construct ==
    /\ pc = "main"
    /\ \E outcome \in ConstructOutcomes :
          /\ pc' = AfterConstruct(outcome)
          /\ init_error' = IF outcome = "ok" THEN "" ELSE outcome
    /\ UNCHANGED <<command, conversation_context, trace, draft, scheduled,
                   config_file>>

\* run: the greeting spoken before the loop
Greet ==
    /\ pc = "run"
    /\ trace' = << EvSpeak(Greeting) >>
    /\ pc' = "listening"
    /\ UNCHANGED <<command, conversation_context, draft, scheduled, config_file, init_error>>

\* run: command = self.speech_handler.listen()
RunListen ==
    /\ pc = "listening"
    /\ Len(conversation_context) + 2 <= MaxLog
    /\ \E ret \in ListenReturns :
          /\ command' = ret
          /\ trace' = << EvListen(ret) >>
    /\ pc' = "dispatch"
    /\ UNCHANGED <<conversation_context, draft, scheduled, config_file, init_error>>

\* run: `if not command: continue`
EmptyTurn ==
    /\ pc = "dispatch"
    /\ Branch(command) = "empty"
    /\ pc' = "listening"
    /\ UNCHANGED <<command, conversation_context, trace, draft, scheduled, config_file, init_error>>

\* run: the exit/bye branch, ending in break
FarewellTurn ==
    /\ pc = "dispatch"
    /\ Branch(command) = "farewell"
    /\ \E backend \in BackendOutcomes :
          LET r == GenerateResponse(conversation_context, "Goodbye!", backend)
          IN  /\ conversation_context' = r.log
              /\ trace' = trace \o r.calls \o << EvSpeak(r.ret) >>
    /\ pc' = "done"
    /\ UNCHANGED <<command, draft, scheduled, config_file, init_error>>

\* run: the "summarize my last email" branch, ending in continue; an
\* exception of summarize_email leaves run and is caught by main
SummarizeTurn ==
    /\ pc = "dispatch"
    /\ Branch(command) = "summarize"
    /\ \E mail \in MailOutcomes, backend \in BackendOutcomes :
          LET f    == FetchLastEmail(mail)
              head == trace \o << EvSpeak("Fetching your last email..."), EvFetch(f) >>
              s    == SummarizeEmail(f.text, Str(f.sender), backend)
          IN  IF ShouldSummarize(f.sender, f.text)
              THEN IF s.raised
                   THEN /\ trace' = head \o s.calls
                        /\ pc' = "aborted"
                   ELSE /\ trace' = head \o s.calls \o
                              << EvSpeak("The summary of your last email from "
                                         \o Str(f.sender) \o " is: " \o s.ret) >>
                        /\ pc' = "listening"
              ELSE /\ trace' = head \o << EvSpeak(f.text) >>
                   /\ pc' = "listening"
    /\ UNCHANGED <<command, conversation_context, draft, scheduled, config_file, init_error>>

\* run: every other command goes to generate_response
FreeformTurn ==
    /\ pc = "dispatch"
    /\ Branch(command) = "freeform"
    /\ \E backend \in BackendOutcomes :
          LET r == GenerateResponse(conversation_context, command, backend)
          IN  /\ conversation_context' = r.log
              /\ trace' = trace \o r.calls \o << EvSpeak(r.ret) >>
    /\ pc' = "listening"
    /\ UNCHANGED <<command, draft, scheduled, config_file, init_error>>

Next ==
    \/ Construct
    \/ Greet
    \/ RunListen
    \/ EmptyTurn
    \/ FarewellTurn
    \/ SummarizeTurn
    \/ FreeformTurn

Spec == Init /\ [][Next]_vars

\* main started with the configuration file in any state
InitStartup == Started /\ config_file \in ConfigFiles

SpecStartup == InitStartup /\ [][Next]_vars

----------------------------------------------------------------------------
(* ConversationalAI.handle_schedule_event, called on its own *)

TitlePrompt == "What is the event title?"
StartPrompt == "What is the start time? (Format: YYYY-MM-DDThh:mm:ss)"
EndPrompt == "What is the end time? (Format: YYYY-MM-DDThh:mm:ss)"
ScheduleFailed == "Failed to schedule event. Please check the time format."
ScheduleSucceeded(title) == "Event '" \o title \o "' successfully scheduled."

InitSchedule ==
    /\ pc = "ask_title"
    /\ command = ""
    /\ conversation_context = <<>>
    /\ trace = <<>>
    /\ draft = <<>>
    /\ scheduled = <<>>
    /\ config_file = "valid"
    /\ init_error = ""

\* a prompt repeated until something is captured
Ask_ReaskOnEmpty(at, prompt, then) ==
    /\ pc = at
    /\ \E ret \in CaptureReturns :
          /\ draft' = IF ret = "" THEN draft ELSE Append(draft, ret)
          /\ trace' = trace \o << EvSpeak(prompt), EvListen(ret) >>
          /\ pc' = IF ret = "" THEN at ELSE then
    /\ UNCHANGED <<command, conversation_context, scheduled, config_file, init_error>>

\* one prompt and the capture that follows it
Ask(at, prompt, then) ==
    /\ pc = at
    /\ \E ret \in CaptureReturns :
          /\ draft' = Append(draft, ret)
          /\ trace' = trace \o << EvSpeak(prompt), EvListen(ret) >>
    /\ pc' = then
    /\ UNCHANGED <<command, conversation_context, scheduled, config_file, init_error>>

AskTitle == Ask("ask_title", TitlePrompt, "ask_start")
AskStart == Ask("ask_start", StartPrompt, "ask_end")
AskEnd == Ask("ask_end", EndPrompt, "validate")

\* the call of add_event and the utterance chosen by its result
ValidateAndSpeak ==
    /\ pc = "validate"
    /\ LET title == draft[1]
           start_time == draft[2]
           end_time == draft[3]
       IN  IF AddEvent(title, start_time, end_time)
           THEN /\ scheduled' = Append(scheduled, <<title, start_time, end_time>>)
                /\ trace' = trace \o << EvAddEvent(title, start_time, end_time),
                                        EvSpeak(ScheduleSucceeded(title)) >>
           ELSE /\ scheduled' = scheduled
                /\ trace' = trace \o << EvAddEvent(title, start_time, end_time),
                                        EvSpeak(ScheduleFailed) >>
    /\ pc' = "returned"
    /\ UNCHANGED <<command, conversation_context, draft, config_file, init_error>>

NextSchedule == AskTitle \/ AskStart \/ AskEnd \/ ValidateAndSpeak

SpecSchedule == InitSchedule /\ [][NextSchedule]_vars

----------------------------------------------------------------------------
(* WebBrowserHandler.open_website, called on its own *)

SiteWords ==
    { "YouTube", "google", "facebook", "twitter", "instagram", "linkedin",
      "amazon", "reddit", "GitHub", "stackoverflow", "netflix" }

\* commands as run would pass them, lower-cased by listen, and a few as
\* another caller might pass them
WebCommands ==
    { Lower("open " \o a \o " and " \o b) : a, b \in SiteWords }
        \cup { "can you open netflix", "open the door", "", "Open YouTube",
               "GOOGLE or github", "stackoverflow" }

InitWeb ==
    /\ pc = "open_website"
    /\ command \in WebCommands
    /\ conversation_context = <<>>
    /\ trace = <<>>
    /\ draft = <<>>
    /\ scheduled = <<>>
    /\ config_file = "valid"
    /\ init_error = ""

CallOpenWebsite ==
    /\ pc = "open_website"
    /\ LET r == OpenWebsite(command)
       IN  trace' = r.calls \o << Call("open_website", <<command>>, <<r.ret>>) >>
    /\ pc' = "returned"
    /\ UNCHANGED <<command, conversation_context, draft, scheduled, config_file, init_error>>

NextWeb == CallOpenWebsite

SpecWeb == InitWeb /\ [][NextWeb]_vars

----------------------------------------------------------------------------
(* Properties of the dialogue loop (specification Spec) *)

\* a turn of the main loop is over: the trace starts with its listen()
TurnOver ==
    /\ pc \in {"listening", "done", "aborted"}
    /\ trace # <<>>
    /\ trace[1].op = "listen"

HasOp(op) == \E i \in 1..Len(trace) : trace[i].op = op

SaysFarewell(u) == Contains(u, "exit") \/ Contains(u, "bye")

CollaboratorOps ==
    { "fetch_last_email", "summarize_email", "add_event", "open_website",
      "webbrowser.open" }

\* C1: a turn whose non-empty utterance contains "exit" or "bye", whatever
\* else it contains, invokes no mail, calendar or website collaborator,
\* speaks exactly once (the farewell response, last) and ends the loop:
\* after it no listen() is possible.
C1_FarewellEndsLoop ==
    /\ (TurnOver /\ command # "" /\ SaysFarewell(command)) =>
          /\ pc = "done"
          /\ \A i \in 1..Len(trace) : trace[i].op \notin CollaboratorOps
          /\ CountOp(trace, "speak") = 1
          /\ trace[Len(trace)].op = "speak"
          /\ CountOp(trace, "listen") = 1
    /\ pc = "done" => ~ENABLED RunListen

C1_Witness ==
    /\ pc = "done"
    /\ Contains(command, "summarize my last email")
    /\ Contains(command, "exit")
    /\ trace[Len(trace)].op = "speak"
    /\ Len(conversation_context) > 2

\* C2: when listen() returns the empty string the turn has no effect: the
\* log is unchanged, nothing is spoken, no collaborator is called (the
\* trace stays the lone listen) and the loop is back at listen().
C2_EmptyTurnNoEffect ==
    [][(pc = "dispatch" /\ command = "") =>
          /\ pc' = "listening"
          /\ conversation_context' = conversation_context
          /\ trace' = trace
          /\ trace = << EvListen("") >>
          /\ scheduled' = scheduled]_vars

C2_Witness ==
    /\ pc = "listening"
    /\ command = ""
    /\ trace = << EvListen("") >>
    /\ conversation_context # <<>>

\* the number of occurrences of character c in s
CountChar(s, c) == Cardinality({i \in 1..Len(s) : Char(s, i) = c})

\* the log as it was when the prompt of this turn was rendered: without
\* the assistant entry a successful call appended afterwards
LogAtPrompt ==
    IF \E i \in 1..Len(trace) :
            trace[i].op = "generator" /\ ~trace[i].raised /\ trace[i].ret # <<>>
    THEN SubSeq(conversation_context, 1, Len(conversation_context) - 1)
    ELSE conversation_context

\* C3 as stated: the conversation context never holds more than 5 entries.
C3_LogWithinWindow == Len(conversation_context) <= Window

\* C3 amended: every prompt renders at most 5 log entries, exactly the
\* most recently appended ones in their original order, while the log
\* itself is never trimmed: it only grows by appending.
C3_PromptWithinWindow ==
    /\ [](\A i \in 1..Len(trace) :
            (TurnOver /\ trace[i].op = "generator" /\ ~HasOp("fetch_last_email")) =>
                LET n == Len(LogAtPrompt)
                    k == IF n < 5 THEN n ELSE 5
                    newest == [j \in 1..k |-> LogAtPrompt[n - k + j]]
                IN  /\ CountChar(trace[i].args[1], "\n") = k + 1
                    /\ k <= 5
                    /\ trace[i].args[1] = Prompt(Join(newest)))
    /\ [][/\ Len(conversation_context') >= Len(conversation_context)
          /\ SubSeq(conversation_context', 1, Len(conversation_context))
                = conversation_context]_vars

C3_Witness ==
    /\ TurnOver
    /\ HasOp("generator")
    /\ Len(LogAtPrompt) > Window
    /\ Len(conversation_context) > Window

\* C4: once the loop has started it ends only in a turn whose utterance
\* contained "exit" or "bye".
C4_LoopEndsOnlyByFarewell ==
    (pc \in {"done", "aborted"} /\ trace # <<>>) =>
        (pc = "done" /\ SaysFarewell(command))

\* C5: every call of generate_response or summarize_email returns a
\* string, the apology when the backend raised or answered malformed.
C5_GenerationNeverRaises ==
    \A i \in 1..Len(trace) :
        trace[i].op \in {"generate_response", "summarize_email"} =>
            /\ ~trace[i].raised
            /\ Len(trace[i].ret) = 1
            /\ (trace[i - 1].raised \/ trace[i - 1].ret = <<>>) =>
                    trace[i].ret = << Apology >>

StartsWith(s, prefix) ==
    Len(s) >= Len(prefix) /\ SubSeq(s, 1, Len(prefix)) = prefix

\* C6: in a summarize turn, a fetch that returned no sender has its
\* message spoken and summarize_email is not called; a fetch that
\* returned a sender, whatever the body, has summarize_email called and,
\* when that returns, a summary attributed to the sender spoken.
C6_BranchFollowsFetch ==
    \A i \in 1..Len(trace) :
        (TurnOver /\ trace[i].op = "fetch_last_email") =>
            LET sender == trace[i].ret[1]
                text   == trace[i].ret[2]
                last   == trace[Len(trace)]
            IN  IF sender = "None"
                THEN /\ ~HasOp("summarize_email")
                     /\ last = EvSpeak(text)
                     /\ pc = "listening"
                ELSE /\ HasOp("summarize_email")
                     /\ pc = "listening" =>
                            /\ last.op = "speak"
                            /\ StartsWith(last.args[1],
                                   "The summary of your last email from "
                                       \o SubSeq(sender, 2, Len(sender) - 1) \o " is: ")

\* C7: a non-empty utterance with "schedule" and "event", without
\* "exit"/"bye" and not a summarize request, runs the scheduling sub-flow
\* to its add_event and is not forwarded to generate_response.
C7_ScheduleDispatched ==
    (/\ TurnOver
     /\ Contains(command, "schedule") /\ Contains(command, "event")
     /\ ~SaysFarewell(command)
     /\ ~Contains(command, "summarize my last email")) =>
        /\ HasOp("add_event")
        /\ ~HasOp("generate_response")
        /\ pc = "listening"

\* C8: a non-empty utterance with "open" that is no farewell, summarize or
\* schedule request goes to open_website, whose result is what is spoken,
\* and is not forwarded to generate_response.
C8_OpenDispatched ==
    (/\ TurnOver
     /\ Contains(command, "open")
     /\ ~SaysFarewell(command)
     /\ ~Contains(command, "summarize my last email")
     /\ ~(Contains(command, "schedule") /\ Contains(command, "event"))) =>
        /\ \E i \in 1..Len(trace) :
              /\ trace[i].op = "open_website"
              /\ trace[Len(trace)] = EvSpeak(trace[i].ret[1])
        /\ ~HasOp("generate_response")
        /\ pc = "listening"

----------------------------------------------------------------------------
(* Properties of open_website (specification SpecWeb) *)

\* the site names as capitalize() must render them
CapitalizedSites ==
    << "Youtube", "Google", "Facebook", "Twitter", "Instagram", "Linkedin",
       "Amazon", "Reddit", "Github", "Stackoverflow" >>

\* C9: open_website opens at most one URL: that of the first keyword, in
\* the mapping's order, that is a substring of the utterance, returning
\* "Opening <Site>."; with no keyword in the utterance it opens nothing
\* and returns the not-sure message.
C9_FirstMatchOnly ==
    pc = "returned" =>
        LET matches == {i \in 1..Len(websites) : Contains(command, websites[i][1])}
            opens   == {i \in 1..Len(trace) : trace[i].op = "webbrowser.open"}
            ret     == trace[Len(trace)].ret[1]
        IN  /\ trace[Len(trace)].op = "open_website"
            /\ Cardinality(opens) <= 1
            /\ matches = {} => (opens = {} /\ ret = NotSure)
            /\ matches # {} =>
                  LET first == CHOOSE i \in matches : \A j \in matches : i <= j
                  IN  /\ opens = {1}
                      /\ trace[1].args = << websites[first][2] >>
                      /\ ret = "Opening " \o CapitalizedSites[first] \o "."
            /\ command = "open youtube and google" =>
                  /\ trace[1].args = << "https://www.youtube.com" >>
                  /\ ret = "Opening Youtube."
            /\ command = "can you open netflix" =>
                  ret = "I'm not sure which website to open."

C9_Witness ==
    /\ pc = "returned"
    /\ command = "open google and youtube"
    /\ Len(trace) = 2
    /\ trace[1] = Call("webbrowser.open", << "https://www.youtube.com" >>, <<>>)
    /\ trace[2].ret = << "Opening Youtube." >>

----------------------------------------------------------------------------
(* Properties of handle_schedule_event (specification SpecSchedule) *)

AddEventCalls == {i \in 1..Len(trace) : trace[i].op = "add_event"}

\* C10 as stated: when both captured timestamps parse, add_event is called
\* with the three captured values and success is spoken; when one does not
\* parse, add_event is never called and failure is spoken.
C10_NoCallOnBadTimestamp ==
    pc = "returned" =>
        IF Strptime(draft[2]) /\ Strptime(draft[3])
        THEN /\ \E i \in AddEventCalls : trace[i].args = draft
             /\ trace[Len(trace)] = EvSpeak(ScheduleSucceeded(draft[1]))
        ELSE /\ AddEventCalls = {}
             /\ trace[Len(trace)] = EvSpeak(ScheduleFailed)

\* C10 amended: add_event is called exactly once, with the three captured
\* values in order, in both cases; when both timestamps parse it returns
\* True, the event is registered and success is spoken; when one does not
\* parse it returns False, nothing is registered and failure is spoken.
C10_AddEventDecides ==
    pc = "returned" =>
        /\ Cardinality(AddEventCalls) = 1
        /\ \A i \in AddEventCalls : trace[i].args = draft /\ Len(draft) = 3
        /\ IF Strptime(draft[2]) /\ Strptime(draft[3])
           THEN /\ \A i \in AddEventCalls : trace[i].ret = << "True" >>
                /\ scheduled = << draft >>
                /\ trace[Len(trace)] = EvSpeak(ScheduleSucceeded(draft[1]))
           ELSE /\ \A i \in AddEventCalls : trace[i].ret = << "False" >>
                /\ scheduled = <<>>
                /\ trace[Len(trace)] = EvSpeak(ScheduleFailed)

C10_Witness ==
    /\ pc = "returned"
    /\ draft = << "standup", "2024-01-01t09:00:00", "not-a-date" >>
    /\ \E i \in AddEventCalls : trace[i].ret = << "False" >>
    /\ trace[Len(trace)] = EvSpeak(ScheduleFailed)

\* C11 as stated: an event is committed only if title, start and end were
\* each captured as a non-empty string and both timestamps parse; a draft
\* with a blank title is never committed.
C11_BlankTitleNeverCommitted ==
    (pc = "returned" /\ scheduled # <<>>) =>
        /\ draft[1] # "" /\ draft[2] # "" /\ draft[3] # ""
        /\ Strptime(draft[2]) /\ Strptime(draft[3])

\* C11 amended: an event is committed, and success spoken, exactly when
\* both captured timestamps parse, which needs a non-empty start and end;
\* the title is not looked at, so a draft with a blank title and two
\* timestamps that parse is committed with the empty title.
C11_CommitFollowsTimestampsOnly ==
    pc = "returned" =>
        LET committed == scheduled # <<>>
            success   == trace[Len(trace)] = EvSpeak(ScheduleSucceeded(draft[1]))
        IN  /\ committed <=> (Strptime(draft[2]) /\ Strptime(draft[3]))
            /\ committed <=> success
            /\ committed => (draft[2] # "" /\ draft[3] # "" /\ scheduled[1][1] = draft[1])
            /\ ~committed => trace[Len(trace)] = EvSpeak(ScheduleFailed)

C11_Witness ==
    /\ pc = "returned"
    /\ draft[1] = ""
    /\ scheduled = << << "", "2024-01-01t09:00:00", "2024-01-01t09:30:00" >> >>
    /\ trace[Len(trace)] = EvSpeak("Event '' successfully scheduled.")

\* the calls of one execution of handle_schedule_event, in order
ScheduleScript ==
    << "speak", "listen", "speak", "listen", "speak", "listen", "add_event", "speak" >>

SchedulePrompts ==
    << "What is the event title?",
       "What is the start time? (Format: YYYY-MM-DDThh:mm:ss)",
       "What is the end time? (Format: YYYY-MM-DDThh:mm:ss)" >>

\* C12: whatever is captured, handle_schedule_event is the same linear
\* sequence: title prompt, listen, start prompt, listen, end prompt,
\* listen, validation, one final speak; no prompt is repeated, and the
\* whole flow has exactly three listens and four speaks.
C12_LinearFlow ==
    /\ Len(trace) <= Len(ScheduleScript)
    /\ \A i \in 1..Len(trace) : trace[i].op = ScheduleScript[i]
    /\ Len(draft) = (IF Len(trace) > 6 THEN 3 ELSE Len(trace) \div 2)
    /\ \A j \in 1..3 : Len(trace) >= 2 * j =>
          /\ trace[2 * j - 1] = EvSpeak(SchedulePrompts[j])
          /\ trace[2 * j].ret = << draft[j] >>
    /\ pc = "returned" =>
          /\ Len(trace) = Len(ScheduleScript)
          /\ CountOp(trace, "listen") = 3
          /\ CountOp(trace, "speak") = 4
          /\ trace[8].args[1] \in {ScheduleFailed, ScheduleSucceeded(draft[1])}

C12_Witness ==
    /\ pc = "returned"
    /\ draft = << "", "", "" >>
    /\ Len(trace) = 8
    /\ trace[8] = EvSpeak(ScheduleFailed)

----------------------------------------------------------------------------
(* Properties of startup (specifications SpecStartup and Spec) *)

\* C13: with the configuration file absent, malformed or without the model
\* key, startup aborts: run is not entered, nothing is spoken, no listen().
C13_BadConfigAborts ==
    config_file # "valid" =>
        /\ pc \notin {"listening", "dispatch", "done"}
        /\ trace = <<>>

\* C14: when a handler's constructor fails, the process ends without
\* entering the loop: nothing is spoken, nothing is listened to, no
\* collaborator is called and no further step is possible.
C14_FailedConstructionEnds ==
    init_error # "" =>
        /\ pc = "aborted"
        /\ trace = <<>>
        /\ conversation_context = <<>>
        /\ scheduled = <<>>
        /\ ~ENABLED Next

C14_Witness ==
    /\ init_error = "model_load_error"
    /\ pc = "aborted"
    /\ trace = <<>>

----------------------------------------------------------------------------
(* Properties of the conversation log (specification Spec) *)

InLog(entry) == \E i \in 1..Len(conversation_context) : conversation_context[i] = entry

\* C15 as stated: after each turn with a non-empty utterance the log holds
\* a "User:" entry with the utterance and an "Assistant:" entry for each
\* text spoken in the turn.
C15_EveryTurnLogged ==
    (TurnOver /\ command # "" /\ pc # "aborted") =>
        /\ InLog("User: " \o command)
        /\ \A i \in 1..Len(trace) :
              trace[i].op = "speak" => InLog("Assistant: " \o trace[i].args[1])

\* what was spoken last in a trace
LastSpoken(t) == t[Len(t)].args[1]

\* the backend answered well-formed in a trace
BackendAnswered(t) ==
    \E i \in 1..Len(t) : t[i].op = "generator" /\ ~t[i].raised /\ t[i].ret # <<>>

\* C15 amended: only turns that go through generate_response touch the
\* log.  A freeform turn appends "User: <utterance>"; a farewell turn
\* appends "User: Goodbye!" instead of its utterance; in both, the text
\* spoken is appended as the "Assistant:" entry only when the backend
\* answered, and the apology spoken after a backend failure is not
\* logged.  Summarize turns, empty turns and the greeting leave the log
\* unchanged.
C15_OnlyGeneratedTurnsLogged ==
    [][LET usesGenerate == \E i \in 1..Len(trace') : trace'[i].op = "generate_response"
           said == IF SaysFarewell(command) THEN "Goodbye!" ELSE command
           withUser == Append(conversation_context, "User: " \o said)
       IN  IF pc = "dispatch" /\ usesGenerate
           THEN IF BackendAnswered(trace')
                THEN conversation_context' =
                        Append(withUser, "Assistant: " \o LastSpoken(trace'))
                ELSE /\ conversation_context' = withUser
                     /\ LastSpoken(trace') = Apology
           ELSE conversation_context' = conversation_context]_vars

C15_Witness ==
    /\ pc = "done"
    /\ command = "exit"
    /\ Len(conversation_context) >= 4
    /\ conversation_context[Len(conversation_context)] = "User: Goodbye!"
    /\ ~InLog("User: exit")
    /\ LastSpoken(trace) = Apology
    /\ ~InLog("Assistant: " \o Apology)

EndsWith(s, suffix) ==
    Len(s) >= Len(suffix) /\ SubSeq(s, Len(s) - Len(suffix) + 1, Len(s)) = suffix

\* C16: on every call generate_response(u), with n the number of log
\* entries once the user entry is appended, the prompt renders exactly
\* the last min(5, n) entries in their order, the last of them being
\* "User: u"; no older entry is rendered.
C16_PromptIsNewestEntries ==
    \A i \in 1..Len(trace) :
        (TurnOver /\ trace[i].op = "generate_response") =>
            LET u      == trace[i].args[1]
                prompt == trace[i - 1].args[1]
                n      == Len(LogAtPrompt)
                k      == IF n <= 5 THEN n ELSE 5
                lines  == [j \in 1..k |-> LogAtPrompt[n - k + j] \o "\n"]
                text   == IF k = 0 THEN "" ELSE
                          IF k = 1 THEN lines[1] ELSE
                          IF k = 2 THEN lines[1] \o lines[2] ELSE
                          IF k = 3 THEN lines[1] \o lines[2] \o lines[3] ELSE
                          IF k = 4 THEN lines[1] \o lines[2] \o lines[3] \o lines[4]
                          ELSE lines[1] \o lines[2] \o lines[3] \o lines[4] \o lines[5]
            IN  /\ trace[i - 1].op = "generator"
                /\ n >= 1
                /\ LogAtPrompt[n] = "User: " \o u
                /\ prompt =
                      "The following is a conversation between a helpful assistant and a user:\n"
                          \o text \o "Assistant:"
                /\ EndsWith(prompt, "\nUser: " \o u \o "\nAssistant:")

C16_Witness ==
    /\ TurnOver
    /\ pc = "listening"
    /\ HasOp("generate_response")
    /\ Len(LogAtPrompt) = 6
    /\ LogAtPrompt[1] # LogAtPrompt[6]
    /\ ~Contains(trace[2].args[1], LogAtPrompt[1] \o "\n")

\* C17: between turns the log alternates roles starting with the user, so
\* it has even length and every user entry is followed by its reply.
C17_LogAlternates ==
    pc \in {"listening", "done"} =>
        /\ Len(conversation_context) % 2 = 0
        /\ \A i \in 1..Len(conversation_context) :
              IF i % 2 = 1
              THEN StartsWith(conversation_context[i], "User: ")
              ELSE StartsWith(conversation_context[i], "Assistant: ")

=============================================================================
